---- MODULE Spec2Model ----
(***************************************************************************)
(* A model of terry (main.go): the netstring codec of the fixer protocol,  *)
(* the back-off connector, and the fetch / fix / stage / execute / archive *)
(* loop of main.                                                           *)
(*                                                                         *)
(* Byte strings ([]byte, string) are kept in run-length form: a sequence   *)
(* of runs [b |-> byte, n |-> count] in which adjacent runs hold different *)
(* bytes and every count is positive.  The form is canonical, so two byte  *)
(* strings are equal exactly when their run sequences are equal, and a     *)
(* candidate of MAXLEN bytes is one run.  Bytes are their ASCII codes.     *)
(***************************************************************************)
EXTENDS Integers, Sequences, FiniteSets, TLC

\* const MAXLEN = 10 * 1024 * 1024
MAXLEN == 10 * 1024 * 1024

\* ASCII codes of the bytes the code names.
Colon == 58
Comma == 44
Minus == 45
Plus == 43
Digit0 == 48
Digit9 == 57

(***************************************************************************)
(* []byte operations                                                       *)
(***************************************************************************)
Rep(b, n) == [b |-> b, n |-> n]

\* len(x)
RECURSIVE BLen(_)
BLen(x) == IF x = << >> THEN 0 ELSE Head(x).n + BLen(Tail(x))

\* append(x, y...): the seam is merged when both sides hold the same byte.
BCat(x, y) ==
    IF x = << >> THEN y
    ELSE IF y = << >> THEN x
    ELSE IF x[Len(x)].b = y[1].b
         THEN SubSeq(x, 1, Len(x) - 1)
                \o << Rep(y[1].b, x[Len(x)].n + y[1].n) >>
                \o Tail(y)
         ELSE x \o y

\* x[:k]
RECURSIVE BTake(_, _)
BTake(x, k) ==
    IF k <= 0 \/ x = << >> THEN << >>
    ELSE IF Head(x).n >= k THEN << Rep(Head(x).b, k) >>
    ELSE << Head(x) >> \o BTake(Tail(x), k - Head(x).n)

\* x[k:]
RECURSIVE BDrop(_, _)
BDrop(x, k) ==
    IF k <= 0 \/ x = << >> THEN x
    ELSE IF Head(x).n > k THEN << Rep(Head(x).b, Head(x).n - k) >> \o Tail(x)
    ELSE BDrop(Tail(x), k - Head(x).n)

\* Index of the first byte c of x, counted from 0; -1 when x holds none.
RECURSIVE BIndex(_, _)
BIndex(x, c) ==
    IF x = << >> THEN -1
    ELSE IF Head(x).b = c THEN 0
    ELSE LET r == BIndex(Tail(x), c)
         IN  IF r < 0 THEN -1 ELSE Head(x).n + r

\* []byte(s) of a string given byte by byte.
RECURSIVE BFromBytes(_)
BFromBytes(s) ==
    IF s = << >> THEN << >>
    ELSE BCat(<< Rep(Head(s), 1) >>, BFromBytes(Tail(s)))

(***************************************************************************)
(* strconv.ParseInt(s, 10, 0) on a 64-bit build.  A magnitude of at most   *)
(* 9 significant digits is computed exactly; a longer one is               *)
(* compared with 2^63 as a decimal string and, when in range, stands as    *)
(* HugeInt, which is above MAXLEN and above every 9-digit value.           *)
(***************************************************************************)
HugeInt == 100 * MAXLEN
\* The decimal digits of 2^63, the cutoff of a 64-bit int.
Cutoff64 == << 9, 2, 2, 3, 3, 7, 2, 0, 3, 6, 8, 5, 4, 7, 7, 5, 8, 0, 8 >>

IsDigit(c) == Digit0 <= c /\ c <= Digit9

RECURSIVE DecValue(_, _)
DecValue(d, acc) ==
    IF d = << >> THEN acc ELSE DecValue(Tail(d), acc * 10 + Head(d))

\* -1, 0, 1: the order of two digit strings without leading zeros.
RECURSIVE DecCmp(_, _)
DecCmp(x, y) ==
    IF Len(x) # Len(y) THEN (IF Len(x) < Len(y) THEN -1 ELSE 1)
    ELSE IF x = << >> THEN 0
    ELSE IF Head(x) # Head(y) THEN (IF Head(x) < Head(y) THEN -1 ELSE 1)
    ELSE DecCmp(Tail(x), Tail(y))

\* The decimal digits of 2^64 - 1, the largest uint64.
MaxUint64 == << 1, 8, 4, 4, 6, 7, 4, 4, 0, 7, 3, 7, 0, 9, 5, 5, 1, 6, 1, 5 >>

\* strconv.ParseUint's loop over the bytes of s: the first byte that is no
\* digit is a syntax error, the first digit that takes the value over
\* 2^64 - 1 a range error.  sig: the digits read so far, leading zeros
\* dropped (a run of leading zeros is passed over in one step).
RECURSIVE ParseUint(_, _)
ParseUint(s, sig) ==
    IF s = << >> THEN [sig |-> sig, err |-> "nil"]
    ELSE IF ~IsDigit(Head(s).b) THEN [sig |-> << >>, err |-> "syntax"]
    ELSE IF Head(s).b = Digit0 /\ sig = << >> THEN ParseUint(Tail(s), sig)
    ELSE LET n1 == sig \o << Head(s).b - Digit0 >>
         IN  IF DecCmp(n1, MaxUint64) > 0
             THEN [sig |-> MaxUint64, err |-> "range"]
             ELSE ParseUint(BDrop(s, 1), n1)

\* The int64 of sign and magnitude, magnitude at most 2^63.
IntOf(neg, sig) ==
    LET mag == IF Len(sig) <= 9 THEN DecValue(sig, 0) ELSE HugeInt
    IN  IF neg THEN 0 - mag ELSE mag

\* [i, err]: err is "nil", "syntax" or "range", as strconv.ParseInt returns.
ParseInt(s) ==
    LET neg  == s # << >> /\ s[1].b = Minus
        body == IF s # << >> /\ s[1].b \in {Plus, Minus} THEN BDrop(s, 1) ELSE s
        un   == ParseUint(body, << >>)
    IN  IF body = << >> \/ un.err = "syntax"
        THEN [i |-> 0, err |-> "syntax"]
        ELSE IF ~neg /\ DecCmp(un.sig, Cutoff64) >= 0
        THEN [i |-> HugeInt, err |-> "range"]
        ELSE IF neg /\ DecCmp(un.sig, Cutoff64) > 0
        THEN [i |-> 0 - HugeInt, err |-> "range"]
        ELSE [i |-> IntOf(neg, un.sig), err |-> "nil"]

(***************************************************************************)
(* readNetString(r): r is the bytes the reader still holds, followed by    *)
(* the end of the stream.  The result tells what was returned (data, err), *)
(* what is left unread (rest), how many bytes make() allocated (alloc, -1  *)
(* when make was not reached), whether a read met the end of the stream    *)
(* (eof) and whether the call returned or panicked.                        *)
(***************************************************************************)
NoAlloc == -1

NsReturn(data, err, rest, alloc, eof) ==
    [outcome |-> "return", data |-> data, err |-> err, rest |-> rest,
     alloc |-> alloc, eof |-> eof]

\* The size check off by one: a declared length of MAXLEN + 1 passes.
TooLongOffByOne(dataLen) == dataLen > MAXLEN + 1

\* if dataLen > MAXLEN
TooLong(dataLen) == dataLen > MAXLEN

\* The terminator read but not compared with ','.
TerminatorAnyByte(afterData) == afterData # << >>

\* b, err := r.ReadByte(); the frame ends well unless err != nil || b != ','
TerminatorOk(afterData) == afterData # << >> /\ afterData[1].b = Comma

\* A terminator that is looked at and left in the reader.
TerminatorUnread(afterData) == afterData

\* The reader after r.ReadByte() took the byte in the terminator's place.
PastTerminator(afterData) == BDrop(afterData, 1)

readNetString(r) ==
    LET at == BIndex(r, Colon)
    IN  IF at < 0
        THEN \* r.ReadBytes(':') reached the end of the stream
             NsReturn(<< >>, "EOF", << >>, NoAlloc, TRUE)
        ELSE
        LET lenBytes == BTake(r, at + 1)
            afterLen == BDrop(r, at + 1)
            parsed   == ParseInt(BTake(lenBytes, at))
            dataLen  == parsed.i
        IN  IF TooLong(dataLen)
            THEN NsReturn(<< >>, "Proposed Length > MAXLEN", afterLen, NoAlloc,
                          FALSE)
            ELSE IF parsed.err # "nil"
            THEN NsReturn(<< >>, "Error Parsing Length", afterLen, NoAlloc, FALSE)
            ELSE IF dataLen < 0
            THEN \* make([]byte, dataLen) with a negative length panics
                 [outcome |-> "panic", data |-> << >>,
                  err |-> "makeslice: len out of range",
                  rest |-> afterLen, alloc |-> NoAlloc, eof |-> FALSE]
            ELSE IF BLen(afterLen) < dataLen
            THEN \* io.ReadFull drained the stream before data was full
                 NsReturn(<< >>, "Error reading data", << >>, dataLen, TRUE)
            ELSE
            LET data      == BTake(afterLen, dataLen)
                afterData == BDrop(afterLen, dataLen)
            IN  IF ~TerminatorOk(afterData)
                THEN NsReturn(<< >>, "Missing terminator",
                              PastTerminator(afterData), dataLen,
                              afterData = << >>)
                ELSE NsReturn(data, "nil", PastTerminator(afterData), dataLen,
                              FALSE)

\* The decimal digits of n >= 0, as fmt's %d prints them.
RECURSIVE Itoa(_)
Itoa(n) ==
    IF n < 10 THEN << Digit0 + n >>
    ELSE Itoa(n \div 10) \o << Digit0 + (n % 10) >>

\* The frame without its terminator: "%d:%s".
NetStringFrameNoTerminator(t) ==
    BCat(BFromBytes(Itoa(BLen(t)) \o << Colon >>), t)

\* fmt.Sprintf("%d:%s,", len(t), string(t))
NetStringFrame(t) ==
    BCat(BCat(BFromBytes(Itoa(BLen(t)) \o << Colon >>), t),
         << Rep(Comma, 1) >>)

(***************************************************************************)
(* Inputs.                                                                 *)
(***************************************************************************)
\* The most runs of a byte string drawn as an input.
MaxRuns == 2

\* 'A', and the two bytes the framing gives a meaning to.
DataBytes == {65, Comma, Colon}
RunLens == {1, MAXLEN - 1, MAXLEN, MAXLEN + 1}

IsBlob(x) == \A k \in 1..(Len(x) - 1) : x[k].b # x[k + 1].b

Blobs(maxRuns) ==
    {x \in UNION {[1..k -> [b : DataBytes, n : RunLens]] : k \in 0..maxRuns} :
        IsBlob(x)}

Ascii(digits) == [k \in 1..Len(digits) |-> Digit0 + digits[k]]

\* Length prefixes a peer may send: decimal lengths, signed ones, values
\* around the limits of MAXLEN, int64 and uint64, and text that is no number.
Prefixes ==
    {Itoa(n) : n \in {0, 1, 2, 3, MAXLEN - 1, MAXLEN, MAXLEN + 1, MAXLEN + 2}}
    \cup {<< Minus >> \o Itoa(n) : n \in {0, 1, 5, MAXLEN, HugeInt}}
    \cup {<< Plus >> \o Itoa(n) : n \in {1, 2}}
    \cup {<< >>, << Minus >>, << 120 >>, << Digit0 + 1, 120 >>,
          << Digit0, Digit0 + 1 >>,
          Ascii(Cutoff64), Ascii(MaxUint64), Ascii(MaxUint64) \o << Digit9 >>,
          Ascii(MaxUint64) \o << Digit9, 120 >>,
          << Minus >> \o Ascii(Cutoff64), << Minus >> \o Ascii(MaxUint64)}

\* What follows the payload: nothing, the terminator, a wrong byte, or the
\* terminator and the start of more.
Trailers ==
    {<< >>, << Rep(Comma, 1) >>, << Rep(46, 1) >>,
     << Rep(Comma, 1), Rep(Digit0 + 1, 1) >>}

FrameOf(parts) ==
    BCat(BCat(BFromBytes(parts.prefix \o (IF parts.colon THEN << Colon >> ELSE << >>)),
              parts.payload),
         parts.trailer)

NoParts == [fed |-> FALSE, prefix |-> << >>, colon |-> FALSE,
            payload |-> << >>, trailer |-> << >>]
NoSrc == [set |-> FALSE, t |-> << >>]
NoRes == [outcome |-> "none", data |-> << >>, err |-> "nil", rest |-> << >>,
          alloc |-> NoAlloc, eof |-> FALSE]

(***************************************************************************)
(* The codec on its own: a stream is either a frame fixTest builds or one  *)
(* a peer sends, and readNetString decodes it.                             *)
(***************************************************************************)
VARIABLES
    pc,         \* where main is
    fatal,      \* the message of the log.Fatalf or panic that ended the run
    flagFix,    \* whether -fix names a socket
    fs,         \* the destination directory
    zzz,        \* sleepyConnect's delay
    dials,      \* dials sleepyConnect has made
    slept,      \* time sleepyConnect has slept
    fixConn,    \* fixConn != nil
    fixRest,    \* bytes the fixer sent that fixReader has not consumed
    fixSent,    \* request frames written to the fixer
    test,       \* the loop's variable test
    sha,        \* the loop's variable sha
    count,      \* count
    staged,     \* the Staged File's bytes
    crashes,    \* the files of <dest>/crashes
    ci,         \* ci.Extra of the last francis.Run that reported a crash
    notif,      \* the excerpt of the last "[HAPPY] Crash!" line logged
    runs,       \* target executions started
    execSaw,    \* the Staged File as the last execution found it
    skips,      \* candidates skipped for their size
    iter        \* the current iteration: what getTest returned, what fixTest
                \* returned, the steps taken, the state it started from

VARIABLES
    cfg,        \* the command line: -server, -src, -dest, -fn and flag.Args()
    budget,     \* how many fetches the run is followed for
    srvAddr,    \* main's srvAddr
    testCmd,    \* main's testCmd
    genDialed,  \* the address of getTest's last net.Dial
    startOpen,  \* whether sleepyConnect's connection is open
    fetchOpen,  \* connections getTest opened that are still open
    diagOut,    \* what saveTest's failure path has put on the log
    mark,       \* main's mark, in timer periods
    ticks,      \* values the timer channel has delivered
    reportLine  \* the reporter's last line

mainVars ==
    << pc, fatal, flagFix, fs, zzz, dials, slept, fixConn, fixRest, fixSent,
       test, sha, count, staged, crashes, ci, notif, runs, execSaw, skips, iter,
       cfg, budget, srvAddr, testCmd, genDialed, startOpen, fetchOpen, diagOut,
       mark, ticks, reportLine >>

VARIABLES nsPc, nsStream, nsSrc, nsParts, nsRes, nsFrames, nsGot

netVars == << nsPc, nsStream, nsSrc, nsParts, nsRes, nsFrames, nsGot >>

\* Reply frames a peer sends ahead on one connection, at most.
MaxFrames == 2

\* Payloads of those frames: empty, a byte, a terminator, a colon, and
\* bytes that read as a frame themselves.
FramePayloads ==
    {<< >>, << Rep(65, 1) >>, << Rep(Comma, 1) >>, << Rep(Colon, 1) >>,
     BFromBytes(<< Digit0, Colon, Comma >>)}

\* The frames of the payloads ps, one after the other.
RECURSIVE FramesOf(_)
FramesOf(ps) ==
    IF ps = << >> THEN << >>
    ELSE BCat(NetStringFrame(Head(ps)), FramesOf(Tail(ps)))

NetInit ==
    /\ nsPc = "idle"
    /\ nsStream = << >>
    /\ nsSrc = NoSrc
    /\ nsParts = NoParts
    /\ nsRes = NoRes
    /\ nsFrames = << >>
    /\ nsGot = << >>

\* fixTest's request frame for t, handed to a reader.
NetEncode ==
    /\ nsPc = "idle"
    /\ \E t \in Blobs(MaxRuns) :
         /\ nsSrc' = [set |-> TRUE, t |-> t]
         /\ nsStream' = NetStringFrame(t)
    /\ nsPc' = "ready"
    /\ UNCHANGED << nsParts, nsRes, nsFrames, nsGot >>
    /\ UNCHANGED mainVars

\* A peer's bytes, handed to a reader; the stream ends after them.
NetFeed ==
    /\ nsPc = "idle"
    /\ \E pre \in Prefixes, c \in BOOLEAN, pay \in Blobs(MaxRuns), tr \in Trailers :
         LET parts == [fed |-> TRUE, prefix |-> pre, colon |-> c,
                       payload |-> pay, trailer |-> tr]
         IN  /\ nsParts' = parts
             /\ nsStream' = FrameOf(parts)
    /\ nsPc' = "ready"
    /\ UNCHANGED << nsSrc, nsRes, nsFrames, nsGot >>
    /\ UNCHANGED mainVars

NetDecode ==
    /\ nsPc = "ready"
    /\ nsRes' = readNetString(nsStream)
    /\ nsPc' = "done"
    /\ UNCHANGED << nsStream, nsSrc, nsParts, nsFrames, nsGot >>
    /\ UNCHANGED mainVars

\* A peer's well-formed reply frames, all in the one reader fixTest uses
\* for the whole run.
NetFeedFrames ==
    /\ nsPc = "idle"
    /\ \E n \in 1..MaxFrames : \E ps \in [1..n -> FramePayloads] :
         /\ nsFrames' = ps
         /\ nsStream' = FramesOf(ps)
    /\ nsPc' = "frames"
    /\ UNCHANGED << nsSrc, nsParts, nsRes, nsGot >>
    /\ UNCHANGED mainVars

\* The next call of readNetString on that reader: it goes on from where
\* the call before left the stream.
NetDecodeNext ==
    /\ nsPc = "frames"
    /\ nsStream # << >>
    /\ LET res == readNetString(nsStream)
       IN  /\ nsRes' = res
           /\ nsGot' = Append(nsGot, res)
           /\ nsStream' = res.rest
    /\ UNCHANGED << nsPc, nsSrc, nsParts, nsFrames >>
    /\ UNCHANGED mainVars

(***************************************************************************)
(* main: start-up, then the loop.                                          *)
(***************************************************************************)
\* The most candidates the loop fetches in a run of the model.
MaxIter == 2

\* Timer values the reporter is followed for.
MaxTicks == 1

\* time.Tick(30 * time.Second), in seconds.
TickSeconds == 30

\* Fetches followed when every command line is tried.
MaxStartIter == 1

\* time.Millisecond and time.Second, in nanoseconds (time.Duration).
Millisecond == 1000000
Second == 1000 * Millisecond

\* Candidates the generator streams: none, one, two bytes, the ceiling, one more.
Candidates ==
    {<< >>, << Rep(65, 1) >>, << Rep(65, 1), Rep(Comma, 1) >>,
     << Rep(65, MAXLEN) >>, << Rep(65, MAXLEN + 1) >>}

\* The ways a stream reaches ReadAll: whole, or cut in two reads.
ChunkingsOf(c) ==
    {<< BTake(c, k), BDrop(c, k) >> : k \in {0, 1, BLen(c)} \cap 0..BLen(c)}

\* What the fixer peer may put on its connection after a request.
FixReplies ==
    {NetStringFrame(f) :
        f \in {<< >>, << Rep(65, 1) >>, << Rep(65, 4) >>, << Rep(65, MAXLEN) >>,
               << Rep(65, MAXLEN + 1) >>}}
    \cup {BFromBytes(<< Minus, Digit0 + 5, Colon >>),
          BFromBytes(<< Digit0 + 1, Colon, 65, 46 >>),
          BFromBytes(<< Digit0 + 2, Colon, 65 >>),
          BFromBytes(<< Digit0 + 1, Colon, 65, Comma, Digit0 + 1 >>),
          BFromBytes(<< Digit0 + 1, Colon, 65, Comma,
                        Digit0 + 1, Colon, 66, Comma >>)}

\* francis.Run: err != nil (no crash), or a CrashInfo whose Extra[0] is the
\* diagnostic excerpt.
RunOutcomes ==
    {[fault |-> FALSE, extra |-> << >>],
     [fault |-> TRUE, extra |-> << "SIGSEGV" >>],
     [fault |-> TRUE, extra |-> << "SIGABRT" >>]}

\* The destination directory before the run: absent, a plain file, or a
\* directory with or without its crashes subdirectory.
DestStates ==
    {[dest |-> "absent", crashdir |-> FALSE], [dest |-> "file", crashdir |-> FALSE],
     [dest |-> "dir", crashdir |-> FALSE], [dest |-> "dir", crashdir |-> TRUE]}

\* hsh.Sum(nil) of a sha1 that absorbed the bytes b: the digest is taken as
\* a function of b that tells any two byte strings apart.
Sha1Sum(b) == [sha1 |-> b]

\* hex.EncodeToString(sha)
HexEncodeToString(digest) == [hex |-> digest]

NoSha == [sha1 |-> << >>]

\* io.TeeReader(conn, hsh) under ioutil.ReadAll: every chunk read is
\* appended to the result and written to the hash.
RECURSIVE TeeReadAll(_, _, _)
TeeReadAll(chunks, raw, hashed) ==
    IF chunks = << >> THEN [raw |-> raw, hashed |-> hashed]
    ELSE TeeReadAll(Tail(chunks), BCat(raw, Head(chunks)),
                    BCat(hashed, Head(chunks)))

\* getTest's return values for a stream that arrives as chunks.
getTest(chunks) ==
    LET r == TeeReadAll(chunks, << >>, << >>)
    IN  [raw |-> r.raw, sha |-> Sha1Sum(r.hashed)]

\* The ceiling off by one: a candidate of exactly MAXLEN bytes is skipped.
OversizedOrEqual(t) == BLen(t) >= MAXLEN

\* if len(test) > MAXLEN { continue }
Oversized(t) == BLen(t) > MAXLEN

\* A write that appends to the file instead of replacing its bytes.
WriteFileAppend(old, data) == BCat(old, data)

\* ioutil.WriteFile(name, data, 0600) that succeeds: the file holds data.
WriteFile(old, data) == data

\* The name taken from a digest of the bytes in test at the time of saving.
CrashNameOfTest(digest, t) == << HexEncodeToString(Sha1Sum(t)), ".raw" >>

\* fmt.Sprintf("%s.raw", hex.EncodeToString(sha)), the name main passes to
\* saveTest; t is the loop's test, the other value in scope there.
CrashName(digest, t) == << HexEncodeToString(digest), ".raw" >>

\* The time-out check against two seconds.
TimedOutLate(delay) == delay > 2 * Second

\* if zzz > 1*time.Second
TimedOut(delay) == delay > 1 * Second

\* The crash test that never sees a crash.
CrashedNever(out) == FALSE

\* if err == nil, on francis.Run's result
Crashed(out) == out.fault

\* zzz *= 2
Backoff(delay) == delay * 2

\* The placeholder of the target command, as one command element.
Marker == << "@@" >>

\* srvAddr = "127.0.0.1:4141", where the radamsa that main starts listens
LocalAddr == "127.0.0.1:4141"

\* The address in getTest's net.Dial.
GetTestAddr == "127.0.0.1:4141"

\* path.Join of two paths given as their elements: empty elements vanish.
PathJoin(a, b) == a \o b

\* The element the substitution loop writes over a placeholder.
SubstPath(c) == PathJoin(c.dest, c.fn)

\* The file stageTest writes.
StagePath(c) == PathJoin(c.dest, c.fn)

\* Target commands: too short, without a placeholder, with one, with two
\* (one of them first), and with an element that only contains "@@".
Commands ==
    {<< << "target" >> >>,
     << << "target" >>, << "-x" >> >>,
     << << "target" >>, Marker >>,
     << Marker, << "-i" >>, Marker >>,
     << << "target" >>, << "@@x" >>, Marker >>}

\* Command lines: -server and -src given or not, -dest given or left at its
\* default "", -fn at its default.
Configs ==
    [server : {"", "192.168.1.1:4141"}, src : {"", "corpus"},
     dest : {<< >>, << "work" >>}, fn : {<< ".cur_input" >>}, args : Commands]

\* The command line of the runs that are followed through the main loop.
RunConfig ==
    [server |-> "192.168.1.1:4141", src |-> "", dest |-> << "work" >>,
     fn |-> << ".cur_input" >>, args |-> << << "target" >>, Marker >>]

\* mark before time.Now() is assigned to it.
NoTime == -1

NoLine == [count |-> -1, elapsed |-> -1]

NoIter ==
    [got |-> << >>, fixed |-> << >>, steps |-> << >>, count0 |-> 0,
     crashes0 |-> {}, saves |-> 0, fault |-> "none", diag |-> "",
     fixerr |-> "none", path |-> << >>]

MainInit ==
    /\ pc = "flags"
    /\ cfg \in Configs
    /\ budget \in {MaxStartIter, MaxIter}
    /\ srvAddr = ""
    /\ testCmd = << >>
    /\ genDialed = ""
    /\ startOpen = FALSE
    /\ fetchOpen = 0
    /\ diagOut = << >>
    /\ mark = NoTime
    /\ ticks = 0
    /\ reportLine = NoLine
    /\ fatal = ""
    /\ flagFix \in BOOLEAN
    /\ fs \in DestStates
    /\ zzz = 1 * Millisecond
    /\ dials = 0
    /\ slept = 0
    /\ fixConn = FALSE
    /\ fixRest = << >>
    /\ fixSent = 0
    /\ test = << >>
    /\ sha = NoSha
    /\ count = 0
    /\ staged = << >>
    /\ crashes = {}
    /\ ci = << >>
    /\ notif = ""
    /\ runs = 0
    /\ execSaw = << >>
    /\ skips = 0
    /\ iter = NoIter

Fatal(msg) == pc' = "exit" /\ fatal' = msg

\* testCmd := flag.Args() and the checks on the command line; with -src the
\* corpus directory is checked and radamsa is started on port 4141.
Flags ==
    /\ pc = "flags"
    /\ testCmd' = cfg.args
    /\ IF Len(cfg.args) < 2
       THEN Fatal("Minimum target command is: /path/to/target @@")
            /\ UNCHANGED srvAddr
       ELSE IF cfg.server # "" /\ cfg.src # ""
       THEN Fatal("-src and -server cannot be used together.")
            /\ UNCHANGED srvAddr
       ELSE IF cfg.server = "" /\ cfg.src = ""
       THEN Fatal("need a corpus directory (-src) or a radamsa server address (-server)")
            /\ UNCHANGED srvAddr
       ELSE IF cfg.src # ""
       THEN \E srcDir \in {"dir", "file", "absent"}, started \in BOOLEAN :
              IF srcDir = "absent"
              THEN Fatal("unable to open -src dir") /\ UNCHANGED srvAddr
              ELSE IF srcDir = "file"
              THEN Fatal("-src is not a directory.") /\ UNCHANGED srvAddr
              ELSE IF ~started
              THEN Fatal("Unable to launch radamsa server") /\ UNCHANGED srvAddr
              ELSE /\ srvAddr' = LocalAddr
                   /\ pc' = "connect"
                   /\ UNCHANGED fatal
       ELSE /\ srvAddr' = cfg.server
            /\ pc' = "connect"
            /\ UNCHANGED fatal
    /\ UNCHANGED netVars
    /\ UNCHANGED << flagFix, fs, zzz, dials, slept, fixConn, fixRest, fixSent,
                    test, sha, count, staged, crashes, ci, notif, runs,
                    execSaw, skips, iter >>
    /\ UNCHANGED << cfg, budget, genDialed, startOpen, fetchOpen, diagOut,
                    mark, ticks, reportLine >>

\* One pass of sleepyConnect's loop (the time-out check, the sleep, the
\* dial), and main's check of its error.  dials and slept count the failed
\* dials and the time slept before them.
SleepyConnect ==
    /\ pc = "connect"
    /\ IF TimedOut(zzz)
       THEN /\ Fatal("connection to server timed out.")
            /\ UNCHANGED << zzz, dials, slept >>
       ELSE /\ \E ok \in BOOLEAN :
                 IF ok
                 THEN \* return s, nil: the connector's variables are gone
                      /\ pc' = "handshake"
                      /\ zzz' = 0 /\ dials' = 0 /\ slept' = 0
                 ELSE /\ pc' = "connect"
                      /\ zzz' = Backoff(zzz)
                      /\ dials' = dials + 1
                      /\ slept' = slept + zzz
            /\ UNCHANGED fatal
    /\ startOpen' = (pc' = "handshake")
    /\ UNCHANGED << cfg, budget, srvAddr, testCmd, genDialed, fetchOpen,
                    diagOut, mark, ticks, reportLine >>
    /\ UNCHANGED netVars
    /\ UNCHANGED << flagFix, fs, fixConn, fixRest, fixSent, test, sha, count,
                    staged, crashes, ci, notif, runs, execSaw, skips, iter >>

\* ioutil.ReadAll(conn) of the readiness message.
Handshake ==
    /\ pc = "handshake"
    /\ \E ok \in BOOLEAN :
         IF ok THEN pc' = "destdir" /\ UNCHANGED fatal
         ELSE Fatal("Error reading from server")
    /\ UNCHANGED << cfg, budget, srvAddr, testCmd, genDialed, startOpen,
                    fetchOpen, diagOut, mark, ticks, reportLine >>
    /\ UNCHANGED netVars
    /\ UNCHANGED << flagFix, fs, zzz, dials, slept, fixConn, fixRest, fixSent,
                    test, sha, count, staged, crashes, ci, notif, runs,
                    execSaw, skips, iter >>

\* Whether os.Stat(*flagDestDir) returns an error: the path is missing, or
\* it is the empty default, which names no file.
StatFails(dest, dir) == dest = << >> \/ dir.dest = "absent"

\* The checks on -dest: a plain file is fatal; a missing directory is made
\* together with its crashes subdirectory; then the test file is written.
DestDir ==
    /\ pc = "destdir"
    /\ IF ~StatFails(cfg.dest, fs) /\ fs.dest = "file"
       THEN /\ Fatal("-dest is not a directory.")
            /\ UNCHANGED << fs, staged >>
       ELSE \E mkOk \in BOOLEAN, wrOk \in BOOLEAN :
              IF StatFails(cfg.dest, fs) /\ ~mkOk
              THEN /\ Fatal("failed to create -dest")
                   /\ UNCHANGED << fs, staged >>
              ELSE /\ fs' = IF StatFails(cfg.dest, fs)
                            THEN [dest |-> "dir", crashdir |-> TRUE]
                            ELSE fs
                   /\ IF wrOk
                      THEN /\ staged' = WriteFile(staged, BFromBytes(<< 116, 101, 115, 116 >>))
                           /\ pc' = "subst"
                           /\ UNCHANGED fatal
                      ELSE /\ Fatal("failed to create test file")
                           /\ UNCHANGED staged
    /\ UNCHANGED << cfg, budget, srvAddr, testCmd, genDialed, startOpen,
                    fetchOpen, diagOut, mark, ticks, reportLine >>
    /\ UNCHANGED netVars
    /\ UNCHANGED << flagFix, zzz, dials, slept, fixConn, fixRest, fixSent, test,
                    sha, count, crashes, ci, notif, runs, execSaw, skips, iter >>

\* A loop that stops at the first placeholder it replaces.
RECURSIVE SubstituteFirst(_, _)
SubstituteFirst(cmd, p) ==
    IF cmd = << >> THEN << >>
    ELSE IF Head(cmd) = Marker THEN << p >> \o Tail(cmd)
    ELSE << Head(cmd) >> \o SubstituteFirst(Tail(cmd), p)

\* A count of every element of the command.
SubCountAll(cmd) == Len(cmd)

\* The loop over testCmd: an element equal to "@@" becomes p.
Substitute(cmd, p) ==
    [i \in 1..Len(cmd) |-> IF cmd[i] = Marker THEN p ELSE cmd[i]]

\* sub, the number of elements the loop replaced.
SubCount(cmd) == Cardinality({i \in 1..Len(cmd) : cmd[i] = Marker})

\* The substitution of the Staged File path for the placeholders, and the
\* check that there was at least one.
Subst ==
    /\ pc = "subst"
    /\ testCmd' = Substitute(testCmd, SubstPath(cfg))
    /\ IF SubCount(testCmd) = 0
       THEN Fatal("No substitute markers ( @@ ) in supplied command")
       ELSE pc' = "fixdial" /\ UNCHANGED fatal
    /\ UNCHANGED netVars
    /\ UNCHANGED << flagFix, fs, zzz, dials, slept, fixConn, fixRest, fixSent,
                    test, sha, count, staged, crashes, ci, notif, runs,
                    execSaw, skips, iter >>
    /\ UNCHANGED << cfg, budget, srvAddr, genDialed, startOpen, fetchOpen,
                    diagOut, mark, ticks, reportLine >>

\* net.Dial("unix", *flagFix) when -fix is given.
FixDial ==
    /\ pc = "fixdial"
    /\ IF flagFix
       THEN \E ok \in BOOLEAN :
              IF ok THEN fixConn' = TRUE /\ pc' = "loop" /\ UNCHANGED fatal
              ELSE Fatal("Unable to dial fix socket") /\ UNCHANGED fixConn
       ELSE pc' = "loop" /\ UNCHANGED << fixConn, fatal >>
    /\ mark' = IF pc' = "loop" THEN ticks ELSE mark
    /\ UNCHANGED << cfg, budget, srvAddr, testCmd, genDialed, startOpen,
                    fetchOpen, diagOut, ticks, reportLine >>
    /\ UNCHANGED netVars
    /\ UNCHANGED << flagFix, fs, zzz, dials, slept, fixRest, fixSent, test, sha,
                    count, staged, crashes, ci, notif, runs, execSaw, skips,
                    iter >>

\* test, sha := getTest() and the size check: the dial or the read may fail
\* (fatal); an oversized candidate starts the loop over.
GetTest ==
    /\ pc = "loop"
    /\ count + skips < budget
    /\ \/ /\ Fatal("Unable to connect to radamsa server")
          /\ UNCHANGED << test, sha, skips, iter >>
       \/ /\ Fatal("Error reading from server")
          /\ UNCHANGED << test, sha, skips, iter >>
       \/ \E c \in Candidates : \E chunks \in ChunkingsOf(c) :
            LET r == getTest(chunks)
                started == [NoIter EXCEPT !.got = r.raw, !.steps = << "fetch" >>,
                                          !.count0 = count, !.crashes0 = crashes]
            IN  /\ UNCHANGED fatal
                /\ IF Oversized(r.raw)
                   THEN /\ pc' = "loop"
                        /\ skips' = skips + 1
                        /\ test' = << >>
                        /\ sha' = NoSha
                        /\ iter' = [started EXCEPT !.fault = "skipped"]
                   ELSE /\ pc' = IF fixConn THEN "fix" ELSE "stage"
                        /\ test' = r.raw
                        /\ sha' = r.sha
                        /\ iter' = started
                        /\ UNCHANGED skips
    /\ genDialed' = GetTestAddr
    /\ fetchOpen' = IF pc' = "exit" THEN fetchOpen ELSE fetchOpen + 1
    /\ UNCHANGED << cfg, budget, srvAddr, testCmd, startOpen, diagOut, mark,
                    ticks, reportLine >>
    /\ UNCHANGED netVars
    /\ UNCHANGED << flagFix, fs, zzz, dials, slept, fixConn, fixRest, fixSent,
                    count, staged, crashes, ci, notif, runs, execSaw >>

\* test, err = fixTest(test, fixConn, fixReader): the frame is written and
\* the result of conn.Write is dropped; the peer's bytes join what the
\* reader holds, and one frame is decoded.  A write fails on a connection
\* the peer has left, which sends nothing more and ends the stream.  A read
\* that needs bytes the peer neither sends nor ends the stream over never
\* returns.
FixTest ==
    /\ pc = "fix"
    /\ \E wrote \in BOOLEAN :
       /\ fixSent' = IF wrote THEN fixSent + 1 ELSE fixSent
       /\ \E reply \in (IF wrote THEN FixReplies ELSE {<< >>}),
             closed \in (IF wrote THEN BOOLEAN ELSE {TRUE}) :
            LET res == readNetString(BCat(fixRest, reply))
                failed == IF ~wrote THEN "write"
                          ELSE IF res.outcome = "panic" \/ res.err # "nil"
                          THEN "decode" ELSE "none"
            IN  /\ fixRest' = res.rest
                /\ IF res.outcome = "panic"
                   THEN /\ pc' = "panic" /\ fatal' = res.err
                        /\ iter' = [iter EXCEPT !.fixerr = failed]
                        /\ UNCHANGED test
                   ELSE IF res.eof /\ ~closed
                   THEN /\ pc' = "blocked"
                        /\ UNCHANGED << fatal, test, iter >>
                   ELSE IF res.err # "nil"
                   THEN /\ Fatal("failed to fix test")
                        /\ test' = res.data
                        /\ iter' = [iter EXCEPT !.fixerr = failed]
                   ELSE /\ pc' = "stage"
                        /\ test' = res.data
                        /\ iter' = [iter EXCEPT !.fixed = res.data,
                                                !.steps = @ \o << "fix" >>,
                                                !.fixerr = failed]
                        /\ UNCHANGED fatal
    /\ UNCHANGED << cfg, budget, srvAddr, testCmd, genDialed, startOpen,
                    fetchOpen, diagOut, mark, ticks, reportLine >>
    /\ UNCHANGED netVars
    /\ UNCHANGED << flagFix, fs, zzz, dials, slept, fixConn, sha, count, staged,
                    crashes, ci, notif, runs, execSaw, skips >>

\* A counter that stays where it is.
IncrLost(c) == c

\* count++
Incr(c) == c + 1

\* stageTest(test); count++.  A failed write leaves the file as it was,
\* empty, or cut short, and is fatal.
StageTest ==
    /\ pc = "stage"
    /\ \/ /\ staged' = WriteFile(staged, test)
          /\ count' = Incr(count)
          /\ pc' = "run"
          /\ iter' = [iter EXCEPT !.steps = @ \o << "stage" >>,
                                  !.path = StagePath(cfg)]
          /\ UNCHANGED fatal
       \/ /\ staged' \in {staged, << >>, BTake(test, BLen(test) \div 2)}
          /\ Fatal("failed to create test file")
          /\ UNCHANGED << count, iter >>
    /\ UNCHANGED << cfg, budget, srvAddr, testCmd, genDialed, startOpen,
                    fetchOpen, diagOut, mark, ticks, reportLine >>
    /\ UNCHANGED netVars
    /\ UNCHANGED << flagFix, fs, zzz, dials, slept, fixConn, fixRest, fixSent,
                    test, sha, crashes, ci, notif, runs, execSaw, skips >>

\* ci, err := francis.Run(testCmd): the target runs on the Staged File.
\* With no crash the iteration ends here and its variables go out of scope.
Run ==
    /\ pc = "run"
    /\ runs' = runs + 1
    /\ execSaw' = staged
    /\ \E out \in RunOutcomes :
         LET ran == [iter EXCEPT !.steps = @ \o << "execute" >>,
                                 !.fault = IF out.fault THEN "yes" ELSE "no",
                                 !.diag = IF out.fault THEN out.extra[1] ELSE ""]
         IN  /\ iter' = ran
             /\ IF Crashed(out)
                THEN /\ ci' = out.extra
                     /\ pc' = "save"
                     /\ UNCHANGED << test, sha >>
                ELSE /\ pc' = "loop"
                     /\ test' = << >>
                     /\ sha' = NoSha
                     /\ UNCHANGED ci
    /\ UNCHANGED << cfg, budget, srvAddr, testCmd, genDialed, startOpen,
                    fetchOpen, diagOut, mark, ticks, reportLine >>
    /\ UNCHANGED netVars
    /\ UNCHANGED << fatal, flagFix, fs, zzz, dials, slept, fixConn, fixRest,
                    fixSent, count, staged, crashes, notif, skips >>

\* A line of the log, and the string hex.Dump returns for the bytes raw.
LogLine(text) == [kind |-> "log", text |-> text, bytes |-> << >>]
HexDump(raw) == [kind |-> "dump", text |-> "", bytes |-> raw]

\* What saveTest puts on the log when its write fails: the two log lines.
\* hex.Dump(raw) is called between them and its result is not used.
SaveFailureLog(raw) ==
    LET unused == HexDump(raw)
    IN  << LogLine("failed to write crashfile!"),
           LogLine("(that hexdump was the last test)") >>

\* log.Printf("[HAPPY] Crash! - %s", ci.Extra[0]) and
\* saveTest(fmt.Sprintf("%s.raw", hex.EncodeToString(sha)), test).  The
\* write fails when <dest>/crashes is missing, and may fail otherwise.
SaveTest ==
    /\ pc = "save"
    /\ notif' = ci[1]
    /\ \E ok \in BOOLEAN :
         IF ok /\ fs.crashdir
         THEN /\ crashes' =
                   {c \in crashes : c.name # CrashName(sha, test)}
                   \cup {[name |-> CrashName(sha, test),
                          data |-> WriteFile(<< >>, test),
                          from |-> iter.got]}
              /\ pc' = "loop"
              /\ test' = << >>
              /\ sha' = NoSha
              /\ UNCHANGED << fatal, diagOut >>
         ELSE /\ Fatal("(that hexdump was the last test)")
              /\ diagOut' = diagOut \o SaveFailureLog(test)
              /\ UNCHANGED << crashes, test, sha >>
    /\ iter' = [iter EXCEPT !.steps = @ \o << "archive" >>, !.saves = @ + 1]
    /\ UNCHANGED << cfg, budget, srvAddr, testCmd, genDialed, startOpen,
                    fetchOpen, mark, ticks, reportLine >>
    /\ UNCHANGED netVars
    /\ UNCHANGED << flagFix, fs, zzz, dials, slept, fixConn, fixRest, fixSent,
                    count, staged, ci, runs, execSaw, skips >>

\* Where main is between the start of the reporter goroutine and the end
\* of the process.
Looping == pc \in {"loop", "fix", "stage", "run", "save", "blocked"}

\* A reporter that counts a test itself each time it prints.
ReporterCounts ==
    /\ Looping
    /\ ticks < MaxTicks
    /\ ticks' = ticks + 1
    /\ count' = count + 1
    /\ reportLine' = [count |-> count',
                      elapsed |-> (ticks' - mark) * TickSeconds]
    /\ UNCHANGED netVars
    /\ UNCHANGED << pc, fatal, flagFix, fs, zzz, dials, slept, fixConn, fixRest,
                    fixSent, test, sha, staged, crashes, ci, notif, runs,
                    execSaw, skips, iter >>
    /\ UNCHANGED << cfg, budget, srvAddr, testCmd, genDialed, startOpen,
                    fetchOpen, diagOut, mark >>

\* One pass of the reporter goroutine: a value arrives on timer, elapsed is
\* taken in whole seconds since mark, and count is read and printed.  The
\* read is not ordered with main's count++, so it yields a value count
\* holds or has held.
Reporter ==
    /\ Looping
    /\ ticks < MaxTicks
    /\ ticks' = ticks + 1
    /\ \E seen \in 0..count :
         reportLine' = [count |-> seen,
                        elapsed |-> (ticks' - mark) * TickSeconds]
    /\ UNCHANGED netVars
    /\ UNCHANGED << pc, fatal, flagFix, fs, zzz, dials, slept, fixConn, fixRest,
                    fixSent, test, sha, count, staged, crashes, ci, notif,
                    runs, execSaw, skips, iter >>
    /\ UNCHANGED << cfg, budget, srvAddr, testCmd, genDialed, startOpen,
                    fetchOpen, diagOut, mark >>

\* The runtime closes a connection that getTest opened and no longer
\* refers to, when the collector gets to it.
Finalizer ==
    /\ Looping
    /\ fetchOpen > 0
    /\ fetchOpen' = fetchOpen - 1
    /\ UNCHANGED netVars
    /\ UNCHANGED << pc, fatal, flagFix, fs, zzz, dials, slept, fixConn, fixRest,
                    fixSent, test, sha, count, staged, crashes, ci, notif,
                    runs, execSaw, skips, iter >>
    /\ UNCHANGED << cfg, budget, srvAddr, testCmd, genDialed, startOpen,
                    diagOut, mark, ticks, reportLine >>

vars == << netVars, mainVars >>

\* The state the other half of the model rests in.
NetIdle == NetInit
MainIdle ==
    /\ MainInit
    /\ flagFix = FALSE
    /\ fs = [dest |-> "absent", crashdir |-> FALSE]
    /\ cfg = RunConfig
    /\ budget = MaxIter

\* The runs followed through the main loop: one command line that passes
\* the startup checks, every state of the destination, with and without a
\* fixer.
Init ==
    /\ MainInit
    /\ NetIdle
    /\ cfg = RunConfig
    /\ budget = MaxIter

\* Every command line, followed through startup and the first fetches.  The
\* default -dest is the working directory, which exists.
InitStart ==
    /\ MainInit
    /\ NetIdle
    /\ budget = MaxStartIter
    /\ cfg.dest = << >> => fs.dest = "dir"

Next ==
    \/ Flags
    \/ SleepyConnect
    \/ Handshake
    \/ DestDir
    \/ Subst
    \/ FixDial
    \/ GetTest
    \/ FixTest
    \/ StageTest
    \/ Run
    \/ SaveTest

Spec == Init /\ [][Next]_vars

\* main run without -fix, together with the reporter goroutine and the
\* runtime's finalizers.
InitConc ==
    /\ MainInit
    /\ NetIdle
    /\ cfg = RunConfig
    /\ budget = MaxIter
    /\ flagFix = FALSE

NextConc ==
    \/ Flags
    \/ SleepyConnect
    \/ Handshake
    \/ DestDir
    \/ Subst
    \/ FixDial
    \/ GetTest
    \/ StageTest
    \/ Run
    \/ SaveTest
    \/ Reporter
    \/ Finalizer

SpecConc == InitConc /\ [][NextConc]_vars

SpecStart == InitStart /\ [][Next]_vars

NetNext ==
    \/ NetEncode
    \/ NetFeed
    \/ NetDecode
    \/ NetFeedFrames
    \/ NetDecodeNext

InitNet == NetInit /\ MainIdle

SpecNet == InitNet /\ [][NetNext]_vars

(***************************************************************************)
(* Properties of the codec (SpecNet).                                      *)
(***************************************************************************)
\* What a fed stream declares, read off its parts without the parser.
PlainDigits(p) == p # << >> /\ \A k \in 1..Len(p) : IsDigit(p[k])

RECURSIVE Significant(_)
Significant(d) ==
    IF d # << >> /\ Head(d) = Digit0 THEN Significant(Tail(d))
    ELSE [k \in 1..Len(d) |-> d[k] - Digit0]

\* The declared length of a plain decimal prefix of at most 8 digits; -1 else.
Declared(p) ==
    IF PlainDigits(p) /\ Len(Significant(p)) <= 8
    THEN DecValue(Significant(p), 0)
    ELSE -1

FedBody == BCat(nsParts.payload, nsParts.trailer)

Rejected ==
    /\ nsRes.outcome = "return"
    /\ nsRes.err # "nil"
    /\ nsRes.data = << >>

\* C3: decoding the frame fixTest builds for a byte string of at most MAXLEN
\* bytes returns that byte string and no error (the empty one included).
NetRoundTrip ==
    (nsPc = "done" /\ nsSrc.set /\ BLen(nsSrc.t) <= MAXLEN)
        => /\ nsRes.outcome = "return"
           /\ nsRes.err = "nil"
           /\ nsRes.data = nsSrc.t

\* A round trip of MAXLEN bytes that hold the delimiter ':'.
WitnessRoundTrip ==
    /\ nsPc = "done" /\ nsSrc.set
    /\ BLen(nsSrc.t) = MAXLEN
    /\ BIndex(nsSrc.t, Colon) >= 0
    /\ nsRes.err = "nil" /\ nsRes.data = nsSrc.t

\* C4: a frame that declares exactly MAXLEN bytes is accepted; a frame that
\* declares MAXLEN + 1 or more is rejected with an error before make() and
\* with every byte after the ':' still unread.
NetSizeLimit ==
    /\ (/\ nsPc = "done" /\ nsParts.fed /\ nsParts.colon
        /\ nsParts.prefix = Itoa(MAXLEN)
        /\ BLen(nsParts.payload) = MAXLEN
        /\ BTake(nsParts.trailer, 1) = << Rep(Comma, 1) >>)
            => /\ nsRes.outcome = "return" /\ nsRes.err = "nil"
               /\ nsRes.data = nsParts.payload
    /\ (/\ nsPc = "done" /\ nsParts.fed /\ nsParts.colon
        /\ PlainDigits(nsParts.prefix)
        /\ DecCmp(Significant(nsParts.prefix), Significant(Itoa(MAXLEN))) > 0)
            => /\ Rejected
               /\ nsRes.alloc = NoAlloc
               /\ nsRes.rest = FedBody
    /\ (nsPc = "done" /\ nsSrc.set /\ BLen(nsSrc.t) > MAXLEN)
            => /\ Rejected
               /\ nsRes.alloc = NoAlloc
               /\ nsRes.rest = BCat(nsSrc.t, << Rep(Comma, 1) >>)

\* A frame declaring MAXLEN + 1 bytes and carrying them, rejected unread.
WitnessSizeLimit ==
    /\ nsPc = "done" /\ nsParts.fed /\ nsParts.colon
    /\ nsParts.prefix = Itoa(MAXLEN + 1)
    /\ BLen(nsParts.payload) = MAXLEN + 1
    /\ nsRes.err = "Proposed Length > MAXLEN"
    /\ nsRes.alloc = NoAlloc
    /\ nsRes.rest = FedBody

\* C5: a length prefix that parses as a negative integer makes readNetString
\* return the parse-failure error, and nothing else happens.
NetNegativeLengthIsParseError ==
    (/\ nsPc = "done" /\ nsParts.fed /\ nsParts.colon
     /\ nsParts.prefix # << >> /\ nsParts.prefix[1] = Minus
     /\ PlainDigits(Tail(nsParts.prefix))
     /\ Significant(Tail(nsParts.prefix)) # << >>)
        => /\ nsRes.outcome = "return"
           /\ nsRes.err = "Error Parsing Length"

\* C6: a stream with no ':', a stream that ends before the declared payload
\* is complete, and a payload not followed by ',' each make readNetString
\* return an error and no payload.
NetMalformedRejected ==
    /\ (nsPc = "done" /\ BIndex(nsStream, Colon) < 0) => Rejected
    /\ (/\ nsPc = "done" /\ nsParts.fed /\ nsParts.colon
        /\ Declared(nsParts.prefix) \in 0..MAXLEN
        /\ \/ BLen(FedBody) < Declared(nsParts.prefix)
           \/ BTake(BDrop(FedBody, Declared(nsParts.prefix)), 1)
                # << Rep(Comma, 1) >>)
            => Rejected

\* "1:A." : the byte after the payload is not the terminator.
WitnessMalformed ==
    /\ nsPc = "done" /\ nsParts.fed /\ nsParts.colon
    /\ nsParts.prefix = Itoa(1)
    /\ nsParts.payload = << Rep(65, 1) >>
    /\ nsParts.trailer = << Rep(46, 1) >>
    /\ nsRes.err = "Missing terminator"

(***************************************************************************)
(* Properties of main (Spec, SpecFair).                                    *)
(***************************************************************************)
\* sleepyConnect's steps are taken as long as they can be: Sleep and Dial
\* return.
SpecFair == Spec /\ WF_vars(SleepyConnect)

RECURSIVE Pow2(_)
Pow2(n) == IF n = 0 THEN 1 ELSE 2 * Pow2(n - 1)

IsPrefix(x, y) == Len(x) <= Len(y) /\ x = SubSeq(y, 1, Len(x))

\* What the iteration's candidate is once fixing is over.
Candidate == IF fixConn THEN iter.fixed ELSE iter.got

StepOrder ==
    IF fixConn THEN << "fetch", "fix", "stage", "execute", "archive" >>
    ELSE << "fetch", "stage", "execute", "archive" >>

\* C1: every Crash Record holds the bytes getTest returned in the iteration
\* that wrote it, also when the fixer returned other bytes.
CrashRecordHoldsRaw == \A c \in crashes : c.data = c.from

\* C2: every Crash Record is named by the hex digest of the bytes getTest
\* returned, followed by ".raw", whatever the fixer replied.
CrashNameFromRaw ==
    /\ \A c \in crashes :
         c.name = << HexEncodeToString(Sha1Sum(c.from)), ".raw" >>
    /\ pc = "save" => sha = Sha1Sum(iter.got)

\* A record of an iteration in which the fixer changed the bytes.
WitnessCrashName ==
    \E c \in crashes :
        /\ c.data # c.from
        /\ c.name = << HexEncodeToString(Sha1Sum(c.from)), ".raw" >>

\* C7: while every dial fails the delay is 1 ms doubled once per failed dial,
\* dials are made only at delays of at most one second, the connector gives
\* up after exactly 10 dials and 1023 ms of sleep, and it does give up or
\* connect.
SleepyConnectTimesOut ==
    /\ [](/\ dials <= 10
          /\ pc = "connect" =>
                /\ zzz = Pow2(dials) * Millisecond
                /\ slept = (Pow2(dials) - 1) * Millisecond
          /\ fatal = "connection to server timed out." =>
                /\ dials = 10
                /\ slept = 1023 * Millisecond
                /\ zzz > Second)
    /\ [][dials' > dials => zzz <= Second]_vars
    /\ (pc = "connect") ~> (pc # "connect")

WitnessTimesOut ==
    /\ pc = "exit"
    /\ fatal = "connection to server timed out."
    /\ dials = 10
    /\ slept = 1023 * Millisecond

\* C8: a fetch of more than MAXLEN bytes goes straight back to the top of
\* the loop and touches nothing (fixer, Staged File, target, archive,
\* counter); a fetch of at most MAXLEN bytes goes on to fixing or staging.
SkipsOversized ==
    /\ [](pc \in {"fix", "stage", "run", "save"} => BLen(iter.got) <= MAXLEN)
    /\ [][(pc = "loop" /\ fetchOpen' > fetchOpen) =>
            IF BLen(iter'.got) > MAXLEN
            THEN /\ pc' = "loop"
                 /\ skips' = skips + 1
                 /\ UNCHANGED << fixSent, fixRest, staged, runs, execSaw,
                                 crashes, count, notif >>
            ELSE /\ pc' \in {"fix", "stage"}
                 /\ skips' = skips
                 /\ test' = iter'.got]_vars

\* A candidate of MAXLEN + 1 bytes skipped after an iteration that ran.
WitnessSkip ==
    /\ pc = "loop"
    /\ iter.fault = "skipped"
    /\ BLen(iter.got) = MAXLEN + 1
    /\ skips = 1
    /\ count = 1

\* C9: an iteration writes a Crash Record exactly when the collaborator
\* reports a fault; with no fault the archive is as the iteration found it
\* and the counter is one higher; with a fault one write is made and the
\* notification carries the collaborator's excerpt.
ArchiveIffFault ==
    /\ iter.fault = "no" =>
          /\ crashes = iter.crashes0
          /\ count = iter.count0 + 1
          /\ iter.saves = 0
    /\ (iter.fault = "yes" /\ pc = "save") => iter.saves = 0
    /\ (iter.fault = "yes" /\ pc # "save") =>
          /\ iter.saves = 1
          /\ notif = iter.diag
          /\ count = iter.count0 + 1
    /\ iter.saves > 0 => iter.fault = "yes"
    /\ crashes # iter.crashes0 => iter.fault = "yes"

\* A second fault: its record is written and its excerpt logged.
WitnessArchive ==
    /\ pc = "loop"
    /\ iter.fault = "yes"
    /\ iter.saves = 1
    /\ iter.crashes0 # {}
    /\ crashes # iter.crashes0
    /\ notif = "SIGABRT"

\* C10: the steps of an iteration come in the order fetch, fix (with a
\* fixer), stage, execute, archive; when the target is about to start, and
\* when it ran, the Staged File holds the iteration's candidate: the fixer's
\* reply with a fixer, the fetched bytes without.
StagedBeforeExecute ==
    /\ IsPrefix(iter.steps, StepOrder)
    /\ pc = "run" =>
          /\ staged = Candidate
          /\ test = Candidate
          /\ iter.steps = SubSeq(StepOrder, 1, Len(StepOrder) - 2)
    /\ (Len(iter.steps) >= Len(StepOrder) - 1) => execSaw = Candidate

\* The second execution about to start on a reply that differs from the
\* fetched bytes.
WitnessStaged ==
    /\ pc = "run"
    /\ fixConn
    /\ count = 2
    /\ iter.fixed # iter.got
    /\ staged = iter.fixed

\* C11: an error in a fixer exchange, the write of the request or the decode
\* of the reply, ends the process: the iteration does not go on to stage or
\* run a candidate, and no later step is taken.
FixerErrorIsFatal ==
    iter.fixerr # "none" => pc \in {"exit", "panic"}

\* C12: when the write of a Crash Record has failed and the process has
\* ended, the log holds a dump of the candidate's bytes, put there before
\* the last line.
DumpBeforeExit ==
    fatal = "(that hexdump was the last test)" =>
        \E k \in 1..(Len(diagOut) - 1) :
            /\ diagOut[k].kind = "dump"
            /\ diagOut[k].bytes = test

(***************************************************************************)
(* Properties of main with the reporter and the finalizers (SpecConc).     *)
(***************************************************************************)
\* Generator connections the process holds open.
OpenGenerator == (IF startOpen THEN 1 ELSE 0) + fetchOpen

\* C13: every connection getTest opened is closed once getTest has
\* returned, and the process never holds more than one open generator
\* connection.
GeneratorConnsClosed ==
    /\ fetchOpen = 0
    /\ OpenGenerator <= 1

\* C15: a step of the reporter leaves the counter, the start time, the
\* Staged File, the archive and every variable of main as they are, so the
\* stage, execute and archive steps main has taken and can take are those
\* of a run with no reporter.
ReporterOnlyObserves ==
    [][ticks' # ticks =>
        UNCHANGED << pc, fatal, count, mark, staged, crashes, test, sha, runs,
                     execSaw, skips, iter, fs, fixConn, fixRest, fixSent, ci,
                     notif, testCmd, srvAddr, diagOut, zzz, dials, slept >>]_vars

\* The reporter printed before the first candidate was staged, and main
\* went on to stage, run and archive.
WitnessReporter ==
    /\ ticks = 1
    /\ reportLine = [count |-> 0, elapsed |-> TickSeconds]
    /\ count >= 1
    /\ crashes # {}
    /\ iter.steps = StepOrder

\* C16 as stated: whenever the reporter may read it, the counter is the
\* number of target executions that have finished.
CountIsFinishedRuns == Looping => count = runs

\* C16: the counter is the number of candidates staged, which is the number
\* of executions finished plus the one in progress, and it never decreases.
CountIsStagedTests ==
    /\ [](count = runs + (IF pc = "run" THEN 1 ELSE 0))
    /\ [][count' >= count]_vars

\* The reporter printed, during the second execution, a count that
\* includes it.
WitnessCountInFlight ==
    /\ pc = "run"
    /\ runs = 1
    /\ count = 2
    /\ ticks >= 1
    /\ reportLine.count = 2

(***************************************************************************)
(* Properties of startup (SpecStart).                                      *)
(***************************************************************************)
HasMarker(cmd) == \E i \in 1..Len(cmd) : cmd[i] = Marker

BothSources == cfg.server # "" /\ cfg.src # ""
NoSource == cfg.server = "" /\ cfg.src = ""
DestIsFile == cfg.dest # << >> /\ fs.dest = "file"

\* C14: with both -src and -server, with neither, with a -dest that is a
\* plain file, or with no "@@" in the target command, the process ends at
\* the check and the main loop is never entered: nothing is fetched for
\* testing, staged as a candidate, or run.
ConfigErrorsFatal ==
    /\ (BothSources \/ NoSource) => pc \in {"flags", "exit"}
    /\ DestIsFile => pc \in {"flags", "connect", "handshake", "destdir", "exit"}
    /\ ~HasMarker(cfg.args) =>
          pc \in {"flags", "connect", "handshake", "destdir", "subst", "exit"}
    /\ (BothSources \/ NoSource \/ DestIsFile \/ ~HasMarker(cfg.args)) =>
          /\ ~Looping
          /\ genDialed = ""
          /\ iter = NoIter
          /\ count = 0
          /\ runs = 0
          /\ crashes = {}

\* A command of two elements without "@@" stopped at the placeholder check,
\* after the connection and the destination checks passed.
WitnessNoMarker ==
    /\ pc = "exit"
    /\ fatal = "No substitute markers ( @@ ) in supplied command"
    /\ ~HasMarker(cfg.args)
    /\ startOpen
    /\ fs.dest = "dir"

\* C18: once the substitution is done, and so before the target is first
\* run, testCmd has the length of the command given, holds the Staged File
\* path wherever the command had "@@" and the given element elsewhere; the
\* path is the one stageTest writes.
SubstitutionExact ==
    /\ pc \in {"fixdial", "loop", "fix", "stage", "run", "save"} =>
          /\ Len(testCmd) = Len(cfg.args)
          /\ \A i \in 1..Len(cfg.args) :
                testCmd[i] = IF cfg.args[i] = Marker
                             THEN PathJoin(cfg.dest, cfg.fn)
                             ELSE cfg.args[i]
    /\ pc = "run" =>
          \A i \in 1..Len(cfg.args) :
              cfg.args[i] = Marker => testCmd[i] = iter.path

\* The target about to run on a command that had two placeholders.
WitnessSubstitution ==
    /\ pc = "run"
    /\ cfg.args = << Marker, << "-i" >>, Marker >>
    /\ cfg.dest = << "work" >>
    /\ testCmd = << << "work", ".cur_input" >>, << "-i" >>,
                    << "work", ".cur_input" >> >>

\* C19: each fetch dials the address the startup connection was made to:
\* the -server address, or the local generator's with -src.
FetchDialsStartupAddr == genDialed # "" => genDialed = srvAddr

\* C20: in the main loop <dest>/crashes exists, whatever the destination
\* was at the start.
CrashDirInLoop == Looping => fs.crashdir

(***************************************************************************)
(* The codec on a reader used for several frames (SpecNet).                *)
(***************************************************************************)
\* C17: on a reader that holds well-formed frames, the i-th call of
\* readNetString succeeds with the payload of the i-th frame and leaves
\* the reader at the first byte of the frame after it.
DecodesFrameByFrame ==
    nsPc = "frames" =>
        /\ Len(nsGot) <= Len(nsFrames)
        /\ \A i \in 1..Len(nsGot) :
              /\ nsGot[i].outcome = "return"
              /\ nsGot[i].err = "nil"
              /\ nsGot[i].data = nsFrames[i]
        /\ nsStream = FramesOf(SubSeq(nsFrames, Len(nsGot) + 1, Len(nsFrames)))

\* Two frames decoded, the first with a payload that reads as a frame.
WitnessTwoFrames ==
    /\ nsPc = "frames"
    /\ Len(nsGot) = 2
    /\ nsFrames[1] = BFromBytes(<< Digit0, Colon, Comma >>)
    /\ nsGot[2].data = << Rep(Comma, 1) >>
    /\ nsStream = << >>

====
